---------------------------- MODULE Spec2Model ----------------------------
(***************************************************************************)
(* A model of the RPC framework: the handler registry (rpc.c over          *)
(* hashtable.c), the wire codec and the framed transport (protocol.c), the *)
(* server loop and the client calls (rpc.c), and the demonstration         *)
(* handlers (server.c).                                                    *)
(*                                                                         *)
(* Bytes are naturals 0..255, byte strings are sequences.  A C pointer     *)
(* that may be NULL is modelled by a record: NoData / NoMsg stand for the  *)
(* NULL pointer, any other record for the object pointed to.               *)
(***************************************************************************)
EXTENDS Integers, Sequences, FiniteSets, TLC

(***************************************************************************)
(* Program constants.                                                      *)
(***************************************************************************)
FAILED == -1
TRUE_C == 1
HASHTABLE_SIZE == 100
MAX_MESSAGE_BYTE_SIZE == 1000000
FIND == 0
CALL == 1
REPLY == 2
REPLY_FAILURE == 3
REQUEST_ID_CLIENT == 123
REQUEST_ID_SERVER == 321

(***************************************************************************)
(* Bounds of the model.                                                    *)
(***************************************************************************)
MaxRegs == 3
MaxReqs == 2
MaxCloses == 2

(***************************************************************************)
(* Names (byte strings without NUL).  "ab" and "dc" fall in the same hash  *)
(* bucket of a table of HASHTABLE_SIZE buckets.                            *)
(***************************************************************************)
N_ab == <<97, 98>>
N_dc == <<100, 99>>
Names == {N_ab, N_dc}

(***************************************************************************)
(* Small arithmetic helpers: the bit operations of C on naturals.          *)
(***************************************************************************)
RECURSIVE Pow2(_)
Pow2(n) == IF n = 0 THEN 1 ELSE 2 * Pow2(n - 1)

RECURSIVE BitLen(_)
BitLen(x) == IF x = 0 THEN 0 ELSE 1 + BitLen(x \div 2)

RECURSIVE BitOr(_, _)
BitOr(a, b) ==
    IF a = 0 THEN b
    ELSE IF b = 0 THEN a
    ELSE (IF (a % 2 = 1) \/ (b % 2 = 1) THEN 1 ELSE 0)
         + 2 * BitOr(a \div 2, b \div 2)

RECURSIVE Zeros(_)
Zeros(n) == IF n = 0 THEN <<>> ELSE <<0>> \o Zeros(n - 1)

(***************************************************************************)
(* rpc_data and rpc_message.  has2 says whether the data2 pointer is       *)
(* non-NULL; data2 is then the bytes it points to.                         *)
(***************************************************************************)
NoData == [nil |-> TRUE]
NoMsg == [nil |-> TRUE]

Data(d1, len, has2, d2) ==
    [data1 |-> d1, data2_len |-> len, has2 |-> has2, data2 |-> d2]

WellFormed(d) ==
    /\ d # NoData
    /\ (d.data2_len = 0) <=> ~d.has2

new_rpc_data(data1, data2_len, src) ==
    IF data2_len = 0
    THEN Data(data1, 0, FALSE, <<>>)
    ELSE Data(data1, data2_len, TRUE, src)

new_rpc_message(request_id, operation, function_name, data) ==
    [request_id |-> request_id, operation |-> operation,
     function_name |-> function_name, data |-> data]

(***************************************************************************)
(* Scalar codec.                                                           *)
(***************************************************************************)
\* The four bytes, most significant first, of the 32-bit two's complement
\* representation of n, for -2^31 <= n < 2^31.
U32Bytes(n) ==
    LET m == IF n >= 0 THEN n ELSE (n + 1073741824) + 1073741824
        top == IF n >= 0 THEN 0 ELSE 128
    IN  << top + (m \div 16777216), (m \div 65536) % 256,
           (m \div 256) % 256, m % 256 >>

\* serialise_int converting through an unsigned 32-bit value: the upper four
\* bytes are zero.
serialise_int_zext(value) == <<0, 0, 0, 0>> \o U32Bytes(value)

\* htobe64 of the int converted to uint64_t: eight bytes, sign-extended.
serialise_int(value) ==
    LET ext == IF value >= 0 THEN 0 ELSE 255
    IN  <<ext, ext, ext, ext>> \o U32Bytes(value)

\* be64toh of eight bytes, converted back to int: the low 32 bits, signed.
deserialise_int(mem, next) ==
    LET b5 == mem[next + 5]
        low == ((b5 % 128) * 16777216) + (mem[next + 6] * 65536)
               + (mem[next + 7] * 256) + mem[next + 8]
    IN  [v |-> IF b5 >= 128 THEN (low - 1073741824) - 1073741824 ELSE low,
         next |-> next + 8]

RECURSIVE FloorLog2(_)
FloorLog2(x) == IF x <= 1 THEN 0 ELSE 1 + FloorLog2(x \div 2)

gamma_code_length(x) == 2 * FloorLog2(x) + 1

\* The binary part of the gamma code: bits i-1 .. 0 of value, one per byte.
RECURSIVE GammaBits(_, _)
GammaBits(value, i) ==
    IF i = 0 THEN <<>>
    ELSE <<(value \div Pow2(i - 1)) % 2>> \o GammaBits(value, i - 1)

serialise_size_t(v) ==
    LET value == v + 1
        length == BitLen(value)
    IN  Zeros(length - 1) \o <<1>> \o GammaBits(value, length - 1)

\* Number of zero bytes from mem[next+1] on (the scan stops at the end of
\* the modelled memory).
RECURSIVE ZeroRun(_, _)
ZeroRun(mem, next) ==
    IF next >= Len(mem) \/ mem[next + 1] # 0 THEN 0
    ELSE 1 + ZeroRun(mem, next + 1)

RECURSIVE GammaValue(_, _, _, _)
GammaValue(mem, next, count, value) ==
    IF count = 0 THEN value
    ELSE GammaValue(mem, next + 1, count - 1,
                    BitOr(2 * value,
                          IF next < Len(mem) THEN mem[next + 1] ELSE 0))

\* deserialise_size_t without the decrement that undoes the encoder's
\* increment.
deserialise_size_t_nodec(mem, next) ==
    LET length == ZeroRun(mem, next)
    IN  [v |-> GammaValue(mem, next + length, length + 1, 0),
         next |-> next + 2 * length + 1]

deserialise_size_t(mem, next) ==
    LET length == ZeroRun(mem, next)
    IN  [v |-> GammaValue(mem, next + length, length + 1, 0) - 1,
         next |-> next + 2 * length + 1]

serialise_string(value) ==
    serialise_size_t(Len(value) + 1) \o value \o <<0>>

\* new_string: the bytes from mem[next+1] up to the first NUL.
RECURSIVE CString(_, _)
CString(mem, next) ==
    IF next >= Len(mem) \/ mem[next + 1] = 0 THEN <<>>
    ELSE <<mem[next + 1]>> \o CString(mem, next + 1)

deserialise_string(mem, next) ==
    LET len == deserialise_size_t(mem, next)
    IN  [v |-> CString(mem, len.next), next |-> len.next + len.v]

(***************************************************************************)
(* Message codec.                                                          *)
(***************************************************************************)
serialise_rpc_data(data) ==
    serialise_int(data.data1) \o serialise_size_t(data.data2_len)
    \o (IF data.data2_len > 0 /\ data.has2
        THEN SubSeq(data.data2, 1, data.data2_len)
        ELSE <<>>)

\* deserialise_rpc_data that leaves the cursor before the data2 bytes.
deserialise_rpc_data_noadv(mem, next) ==
    LET d1 == deserialise_int(mem, next)
        len == deserialise_size_t(mem, d1.next)
    IN  [v |-> new_rpc_data(d1.v, len.v,
                            SubSeq(mem, len.next + 1, len.next + len.v)),
         next |-> len.next]

deserialise_rpc_data(mem, next) ==
    LET d1 == deserialise_int(mem, next)
        len == deserialise_size_t(mem, d1.next)
    IN  [v |-> new_rpc_data(d1.v, len.v,
                            SubSeq(mem, len.next + 1, len.next + len.v)),
         next |-> len.next + len.v]

serialise_rpc_message(message) ==
    serialise_int(message.request_id)
    \o serialise_int(message.operation)
    \o serialise_string(message.function_name)
    \o serialise_rpc_data(message.data)

deserialise_rpc_message(mem, next) ==
    LET id == deserialise_int(mem, next)
        op == deserialise_int(mem, id.next)
        fn == deserialise_string(mem, op.next)
        d  == deserialise_rpc_data(mem, fn.next)
    IN  [v |-> new_rpc_message(id.v, op.v, fn.v, d.v), next |-> d.next]

(***************************************************************************)
(* The handler registry: a chained hash table.  Only the buckets the names *)
(* of the model hash to are represented; no operation touches another one. *)
(***************************************************************************)
NULL == "NULL"

\* An unsigned long is held as four 16-bit limbs, least significant first:
\* its arithmetic wraps at 2^64, which a name of a dozen bytes reaches.
ULong(n) == <<n % 65536, n \div 65536, 0, 0>>

\* ((hash << 5) + hash) + c
Mul33Add(l, c) ==
    LET t1 == l[1] * 33 + c
        t2 == l[2] * 33 + (t1 \div 65536)
        t3 == l[3] * 33 + (t2 \div 65536)
        t4 == l[4] * 33 + (t3 \div 65536)
    IN  <<t1 % 65536, t2 % 65536, t3 % 65536, t4 % 65536>>

\* unsigned long % m, for a small m
ULongMod(l, m) ==
    LET r4 == l[4] % m
        r3 == (r4 * 65536 + l[3]) % m
        r2 == (r3 * 65536 + l[2]) % m
    IN  (r2 * 65536 + l[1]) % m

\* The loop of hash over str[lo..hi], entered with h: the first half of the
\* bytes, then the second half entered with the value the first half left.
RECURSIVE Djb2(_, _, _, _)
Djb2(h, str, lo, hi) ==
    IF lo > hi THEN h
    ELSE IF lo = hi THEN Mul33Add(h, str[lo])
    ELSE LET mid == (lo + hi) \div 2
         IN  CHOOSE r \in {Djb2(m, str, mid + 1, hi) :
                              m \in {Djb2(h, str, lo, mid)}} : TRUE

hash(str) == Djb2(ULong(5381), str, 1, Len(str))

Index(key) == ULongMod(hash(key), HASHTABLE_SIZE)

Buckets == {Index(n) : n \in Names}

hashtable_create == [i \in Buckets |-> <<>>]

\* hashtable_insert that does not link the new item to the chain it heads.
hashtable_insert_unlinked(table, key, data) ==
    [table EXCEPT ![Index(key)] = <<[key |-> key, data |-> data]>>]

hashtable_insert(table, key, data) ==
    [table EXCEPT ![Index(key)] = <<[key |-> key, data |-> data]>> \o @]

RECURSIVE ChainLookup(_, _)
ChainLookup(chain, key) ==
    IF chain = <<>> THEN NULL
    ELSE IF Head(chain).key = key THEN Head(chain).data
    ELSE ChainLookup(Tail(chain), key)

hashtable_lookup(table, key) == ChainLookup(table[Index(key)], key)

RECURSIVE ChainRemove(_, _)
ChainRemove(chain, key) ==
    IF chain = <<>> THEN <<>>
    ELSE IF Head(chain).key = key THEN Tail(chain)
    ELSE <<Head(chain)>> \o ChainRemove(Tail(chain), key)

hashtable_remove(table, key) ==
    [table EXCEPT ![Index(key)] = ChainRemove(@, key)]

\* rpc_register without the removal of an existing entry.
rpc_register_keep(table, name, handler) ==
    IF name = NULL \/ handler = NULL
    THEN [handlers |-> table, ret |-> FAILED]
    ELSE LET t2 == hashtable_insert(table, name, handler)
         IN  [handlers |-> t2,
              ret |-> IF hashtable_lookup(t2, name) = NULL THEN FAILED ELSE 0]

\* rpc_register that appends the new entry behind the existing ones.
rpc_register_tail(table, name, handler) ==
    IF name = NULL \/ handler = NULL
    THEN [handlers |-> table, ret |-> FAILED]
    ELSE LET t2 == [table EXCEPT ![Index(name)] =
                        @ \o <<[key |-> name, data |-> handler]>>]
         IN  [handlers |-> t2,
              ret |-> IF hashtable_lookup(t2, name) = NULL THEN FAILED ELSE 0]

\* rpc_register: the new table and the value returned.
rpc_register(table, name, handler) ==
    IF name = NULL \/ handler = NULL
    THEN [handlers |-> table, ret |-> FAILED]
    ELSE LET t1 == IF hashtable_lookup(table, name) # NULL
                   THEN hashtable_remove(table, name)
                   ELSE table
             t2 == hashtable_insert(t1, name, handler)
         IN  [handlers |-> t2,
              ret |-> IF hashtable_lookup(t2, name) = NULL THEN FAILED ELSE 0]

(***************************************************************************)
(* Handlers.  add2_i8 and sub2_i8 are the demonstration handlers; tst_h is *)
(* a caller-supplied handler that echoes its input when data1 = 1, returns *)
(* a length without bytes when data1 = 0 and bytes without a length        *)
(* otherwise.                                                              *)
(***************************************************************************)
ToI8(v) == ((v + 128) % 256) - 128

add2_i8(in) ==
    IF ~in.has2 \/ in.data2_len # 1 THEN NoData
    ELSE Data(ToI8(in.data1) + ToI8(in.data2[1]), 0, FALSE, <<>>)

sub2_i8(in) ==
    IF ~in.has2 \/ in.data2_len # 1 THEN NoData
    ELSE Data(ToI8(in.data1) - ToI8(in.data2[1]), 0, FALSE, <<>>)

tst_h(in) ==
    IF in.data1 = 1 THEN in
    ELSE IF in.data1 = 0 THEN Data(0, 2, FALSE, <<>>)
    ELSE Data(in.data1, 0, TRUE, <<9>>)

Handlers == {"add2_i8", "sub2_i8", "tst_h"}

Apply(h, in) ==
    CASE h = "add2_i8" -> add2_i8(in)
      [] h = "sub2_i8" -> sub2_i8(in)
      [] h = "tst_h"   -> tst_h(in)

(***************************************************************************)
(* The computations of the client calls and of the request handler.        *)
(***************************************************************************)
NoHandle == [nil |-> TRUE]
NoOp == [nil |-> TRUE]

new_rpc_handle(name) == [name |-> name]

\* The size header: a calloc'ed buffer of gamma_code_length(MAX) bytes with
\* the gamma code of size at its start.
HeaderLen == gamma_code_length(MAX_MESSAGE_BYTE_SIZE)

\* reserve_space: the buffer size doubles until the bytes fit.
RECURSIVE reserve_space(_, _)
reserve_space(bsize, need) ==
    IF need > bsize THEN reserve_space(2 * bsize, need) ELSE bsize

\* size_buf as send_rpc_message writes it: size_buf->size bytes.  The bytes
\* calloc gave are zero; those realloc added and serialise_size_t did not
\* write hold whatever the memory held (fill).
SizeHeaderFill(size, fill) ==
    LET g == serialise_size_t(size)
        total == reserve_space(HeaderLen, gamma_code_length(size + 1))
    IN  [i \in 1..total |->
            IF i <= Len(g) THEN g[i]
            ELSE IF i <= HeaderLen THEN 0 ELSE fill]

SizeHeader(size) == SizeHeaderFill(size, 0)

\* receive_rpc_message: the size decoded from the header read and the
\* cursor of size_buf after it; the gamma decoder reads on in the memory
\* behind size_buf if the code does not end within it.
receive_size(hdr, junk) == deserialise_size_t(hdr \o junk, 0)

\* rpc_find: the request sent and the value returned for a reply.
find_request(name) ==
    new_rpc_message(REQUEST_ID_CLIENT, FIND, name, new_rpc_data(0, 0, <<>>))

find_result(name, reply) ==
    IF reply = NoMsg THEN NoHandle
    ELSE IF reply.operation = REPLY /\ reply.data.data1 = TRUE_C
         THEN new_rpc_handle(name)
         ELSE NoHandle

\* rpc_call sending the empty payload of rpc_find instead of the caller's.
call_request_empty(h, payload) ==
    new_rpc_message(REQUEST_ID_CLIENT, CALL, h.name, new_rpc_data(0, 0, <<>>))

\* rpc_call: the request sent and the value returned for a reply.
call_request(h, payload) ==
    new_rpc_message(REQUEST_ID_CLIENT, CALL, h.name, payload)

call_result(reply) ==
    IF reply = NoMsg THEN NoData
    ELSE IF reply.operation = REPLY THEN reply.data ELSE NoData

\* handle_request, case FIND, with the test of the lookup inverted.
handle_find_inverted(table, msg) ==
    LET h == hashtable_lookup(table, msg.function_name)
        exists == IF h = NULL THEN 1 ELSE 0
    IN  new_rpc_message(REQUEST_ID_SERVER, REPLY, msg.function_name,
                        new_rpc_data(exists, 0, <<>>))

\* handle_request, case FIND: the reply message.
handle_find(table, msg) ==
    LET h == hashtable_lookup(table, msg.function_name)
        exists == IF h # NULL THEN 1 ELSE 0
    IN  new_rpc_message(REQUEST_ID_SERVER, REPLY, msg.function_name,
                        new_rpc_data(exists, 0, <<>>))

\* handle_request from the switch on: the handler invoked (NULL if none),
\* what it returned, the message handed to send_rpc_message, and whether the
\* process faults: calling through a NULL handler, or serialising a NULL
\* message or a NULL rpc_data, dereferences a NULL pointer.
handle_request(table, msg) ==
    IF msg.operation = FIND
    THEN [handler |-> NULL, result |-> NoData,
          new_msg |-> handle_find(table, msg), fault |-> FALSE]
    ELSE IF msg.operation = CALL
    THEN LET handler == hashtable_lookup(table, msg.function_name)
         IN  IF handler = NULL
             THEN [handler |-> NULL, result |-> NoData,
                   new_msg |-> NoMsg, fault |-> TRUE]
             ELSE LET data == Apply(handler, msg.data)
                  IN  [handler |-> handler, result |-> data,
                       new_msg |-> new_rpc_message(REQUEST_ID_SERVER, REPLY,
                                                   msg.function_name, data),
                       fault |-> data = NoData]
    ELSE [handler |-> NULL, result |-> NoData,
          new_msg |-> NoMsg, fault |-> TRUE]

(***************************************************************************)
(* Inputs.                                                                 *)
(***************************************************************************)
Clients == {"c1"}

\* The connections the server may see: the client's and a second client's.
Conns == Clients \cup {"c2"}

\* Payloads a caller passes to rpc_call: two well-formed ones, a length
\* without bytes, and bytes without a length.
P_ok == Data(1, 1, TRUE, <<100>>)
P_empty == Data(0, 0, FALSE, <<>>)
P_nobytes == Data(0, 2, FALSE, <<>>)
P_nolen == Data(5, 0, TRUE, <<7>>)
Payloads == {P_ok, P_empty, P_nobytes, P_nolen}

\* What lies in memory behind a receive buffer, for a read past its end.
Junk == {<<0, 0>>, <<7, 255>>}

\* A handle the client resolved on another server.
ForeignHandles == {new_rpc_handle(N_dc)}

(***************************************************************************)
(* State.                                                                  *)
(***************************************************************************)
VARIABLES
    spc,           \* where the server process is
    handlers,      \* srv->handlers
    keep_running,  \* the flag cleared by the SIGINT handler
    listening,     \* listen() has been called on srv->sockfd
    backlog,       \* connections waiting to be accepted
    cur,           \* the connection handle_all_requests is serving
    srvSize,       \* receive_rpc_message / send_rpc_message: the size
    srvOut,        \* send_rpc_message: the serialised reply
    ssock,         \* cl->sockfd of each accepted connection
    c2s, s2c,      \* bytes in flight, client to server and back
    cpc,           \* where each client is
    cop,           \* the call each client is in
    csock,         \* the client's socket
    handles,       \* the handles each client holds
    nRegs,         \* history: the number of rpc_register calls
    regFailed,     \* history: some rpc_register call returned FAILED
    lastReg,       \* history: per name, the handler last registered
    prevReg,       \* history: per name, the handler registered before that
    nServed,       \* history: requests dispatched, per connection
    nReplied,      \* history: reply bodies written, per connection
    lastServed,    \* history: the last request dispatched, per connection
    nDone,         \* history: calls completed, per client
    lastCall,      \* history: the last call completed, per client
    nClose,        \* history: runs of close and free in rpc_close_client
    cx             \* the codec exercised in isolation: value, bytes, result

srvVars == <<spc, handlers, keep_running, listening, backlog, cur,
             srvSize, srvOut, ssock, nRegs, regFailed, lastReg, prevReg,
             nServed, nReplied, lastServed>>
cliVars == <<cpc, cop, csock, handles, nDone, lastCall, nClose>>
regs == <<nRegs, regFailed, lastReg, prevReg>>
served == <<nServed, nReplied, lastServed>>
calls == <<nDone, lastCall>>
vars == <<srvVars, cliVars, c2s, s2c, cx>>

NoConn == "none"

ProgramInit ==
    /\ spc = "setup"
    /\ handlers = hashtable_create
    /\ keep_running = TRUE
    /\ listening = FALSE
    /\ backlog = <<>>
    /\ cur = NoConn
    /\ srvSize = 0
    /\ srvOut = <<>>
    /\ ssock = [c \in Conns |-> "none"]
    /\ c2s = [c \in Conns |-> <<>>]
    /\ s2c = [c \in Conns |-> <<>>]
    /\ cpc = [c \in Conns |-> "init"]
    /\ cop = [c \in Conns |-> NoOp]
    /\ csock = [c \in Conns |-> "none"]
    /\ handles = [c \in Conns |-> ForeignHandles]
    /\ nRegs = 0
    /\ regFailed = FALSE
    /\ lastReg = [n \in Names |-> NULL]
    /\ prevReg = [n \in Names |-> NULL]
    /\ nServed = [c \in Conns |-> 0]
    /\ nReplied = [c \in Conns |-> 0]
    /\ lastServed = [c \in Conns |-> NoOp]
    /\ nDone = [c \in Conns |-> 0]
    /\ lastCall = [c \in Conns |-> NoOp]
    /\ nClose = [c \in Conns |-> 0]

Init ==
    /\ ProgramInit
    /\ cx = NoOp

ServerDead == spc \in {"faulted", "returned", "aborted"}

Drop(seq, n) == SubSeq(seq, n + 1, Len(seq))

(***************************************************************************)
(* Server.                                                                 *)
(***************************************************************************)
\* main calls rpc_register before rpc_serve_all.
Register(name, handler) ==
    /\ spc = "setup"
    /\ nRegs < MaxRegs
    /\ LET r == rpc_register(handlers, name, handler)
       IN  /\ handlers' = r.handlers
           /\ regFailed' = (regFailed \/ r.ret = FAILED)
    /\ nRegs' = nRegs + 1
    /\ lastReg' = [lastReg EXCEPT ![name] = handler]
    /\ prevReg' = [prevReg EXCEPT ![name] = lastReg[name]]
    /\ UNCHANGED <<cx, ssock, spc, keep_running, listening, backlog, cur,
                   srvSize,
                   srvOut, served, cliVars, c2s, s2c>>

\* rpc_serve_all is entered: the SIGINT handler is installed.
ServeAll ==
    /\ spc = "setup"
    /\ spc' = "accept"
    /\ UNCHANGED <<cx, ssock, handlers, keep_running, listening, backlog,
                   cur, srvSize,
                   srvOut, regs, served, cliVars, c2s, s2c>>

\* read() on the connection the worker serves returns 0 or -1 at once: the
\* peer has closed its end, or the descriptor was closed by read_bytes.
Eof == csock[cur] = "closed" \/ ssock[cur] = "closed"

\* The server waits in recv or read for bytes that are not there yet.
Blocked ==
    \/ spc = "peek1" /\ c2s[cur] = <<>> /\ csock[cur] # "closed"
    \/ spc = "recv_body" /\ Len(c2s[cur]) < srvSize /\ ~Eof
    \/ spc = "wait_echo" /\ Len(c2s[cur]) < HeaderLen /\ ~Eof

\* SIGINT: sig_handler clears keep_running.  The handler is installed with
\* sa_flags 0, so a recv or read the signal interrupts returns -1 (EINTR):
\* is_socket_closed then answers 0 and handle_request is entered; read_bytes
\* adds the -1 to its unsigned total and stops the process at its assertion.
\* A signal that arrives outside a blocking call only clears the flag.
Sigint ==
    /\ spc \notin {"setup", "faulted", "returned", "aborted"}
    /\ keep_running
    /\ keep_running' = FALSE
    /\ \/ spc' = spc
       \/ /\ Blocked
          /\ spc' = IF spc = "peek1" THEN "peek2" ELSE "aborted"
    /\ UNCHANGED <<cx, ssock, handlers, listening, backlog, cur, srvSize,
                   srvOut, regs, served, cliVars, c2s, s2c>>

\* rpc_serve_all leaving its loop without looking at keep_running.
ServeLoop_noflag ==
    /\ spc = "accept"
    /\ spc' = "returned"
    /\ listening' = FALSE
    /\ UNCHANGED <<cx, backlog, cur, ssock, handlers, keep_running, srvSize,
                   srvOut, regs, served, cliVars, c2s, s2c>>

\* One iteration of the loop of rpc_serve_all, up to the call of
\* handle_all_requests; or the exit from the loop and rpc_shutdown_server,
\* which closes the listening socket and frees the server state.
ServeLoop ==
    /\ spc = "accept"
    /\ \/ /\ ~keep_running
          /\ spc' = "returned"
          /\ listening' = FALSE
          /\ UNCHANGED <<backlog, cur, ssock>>
       \/ /\ keep_running
          /\ backlog = <<>>
          /\ listening' = TRUE
          /\ UNCHANGED <<spc, backlog, cur, ssock>>
       \/ /\ keep_running
          /\ backlog # <<>>
          /\ listening' = TRUE
          /\ cur' = Head(backlog)
          /\ backlog' = Tail(backlog)
          /\ ssock' = [ssock EXCEPT ![Head(backlog)] = "open"]
          /\ spc' = "peek1"
    /\ UNCHANGED <<cx, handlers, keep_running, srvSize, srvOut, regs, served,
                   cliVars, c2s, s2c>>

\* handle_all_requests: is_socket_closed blocks in recv(MSG_PEEK) until a
\* byte or the end of the stream is there.
LoopPeek ==
    /\ spc = "peek1"
    /\ \/ /\ ssock[cur] = "open"
          /\ c2s[cur] # <<>>
          /\ spc' = "peek2"
          /\ cur' = cur
       \/ /\ ssock[cur] = "open"
          /\ c2s[cur] = <<>>
          /\ csock[cur] = "closed"
          /\ spc' = "accept"
          /\ cur' = NoConn
       \/ /\ ssock[cur] = "closed"     \* recv fails: -1, the answer is 0
          /\ spc' = "peek2"
          /\ cur' = cur
    /\ UNCHANGED <<cx, ssock, handlers, keep_running, listening, backlog,
                   srvSize,
                   srvOut, regs, served, cliVars, c2s, s2c>>

\* handle_request: is_socket_closed again, then receive_rpc_message up to
\* the read of the body: the size header is read and echoed.
RequestPeek ==
    /\ spc = "peek2"
    /\ \/ /\ ssock[cur] = "open"
          /\ c2s[cur] # <<>>
          /\ spc' = "recv_hdr"
       \/ /\ ssock[cur] = "open"
          /\ c2s[cur] = <<>>
          /\ csock[cur] = "closed"
          /\ spc' = "peek1"
       \/ /\ ssock[cur] = "closed"     \* recv fails: -1, the answer is 0
          /\ spc' = "recv_hdr"
    /\ UNCHANGED <<cx, ssock, handlers, keep_running, listening, backlog,
                   cur, srvSize,
                   srvOut, regs, served, cliVars, c2s, s2c>>

\* read_bytes called for n bytes on the server's side of the connection
\* when they will never come.  The peer has gone: read returns 0, read_bytes
\* closes the socket and returns FAILED, the caller gives up and
\* handle_request returns to the loop of handle_all_requests.  The descriptor
\* is closed already: read returns -1, which read_bytes adds to its unsigned
\* total, and the process stops at the assertion.
SrvReadEOF(n) ==
    /\ \/ /\ ssock[cur] = "open"
          /\ csock[cur] = "closed"
          /\ Len(c2s[cur]) < n
          /\ ssock' = [ssock EXCEPT ![cur] = "closed"]
          /\ c2s' = [c2s EXCEPT ![cur] = <<>>]
          /\ spc' = "peek1"
       \/ /\ ssock[cur] = "closed"
          /\ spc' = "aborted"
          /\ UNCHANGED <<ssock, c2s>>
    /\ srvSize' = 0
    /\ srvOut' = <<>>
    /\ UNCHANGED <<cx, handlers, keep_running, listening, backlog, cur,
                   regs, served, cliVars, s2c>>

\* receive_rpc_message that does not write the size back.
SrvRecvHeader_noecho ==
    /\ spc = "recv_hdr"
    /\ ssock[cur] = "open"
    /\ Len(c2s[cur]) >= HeaderLen
    /\ srvSize' = deserialise_size_t(SubSeq(c2s[cur], 1, HeaderLen), 0).v
    /\ c2s' = [c2s EXCEPT ![cur] = Drop(@, HeaderLen)]
    /\ spc' = "recv_body"
    /\ UNCHANGED <<cx, ssock, handlers, keep_running, listening, backlog,
                   cur, srvOut, regs, served, cliVars, s2c>>

SrvRecvHeader ==
    /\ spc = "recv_hdr"
    /\ \/ /\ ssock[cur] = "open"
          /\ Len(c2s[cur]) >= HeaderLen
          /\ LET hdr == SubSeq(c2s[cur], 1, HeaderLen)
             IN  /\ srvSize' = deserialise_size_t(hdr, 0).v
                 /\ s2c' = [s2c EXCEPT ![cur] = @ \o hdr]
          /\ c2s' = [c2s EXCEPT ![cur] = Drop(@, HeaderLen)]
          /\ spc' = "recv_body"
          /\ UNCHANGED <<cx, ssock, handlers, keep_running, listening,
                         backlog, cur, srvOut, regs, served, cliVars>>
       \/ SrvReadEOF(HeaderLen)

\* receive_rpc_message reads the body and deserialises it; handle_request
\* dispatches and calls send_rpc_message, which writes the size header of
\* the reply.
SrvRecvBody ==
    /\ spc = "recv_body"
    /\ srvSize > 0
    /\ Len(c2s[cur]) >= srvSize
    /\ ssock[cur] = "open"
    /\ \E junk \in Junk :
         LET buf == SubSeq(c2s[cur], 1, srvSize)
             msg == deserialise_rpc_message(buf \o junk, 0).v
             out == handle_request(handlers, msg)
             body == IF out.fault THEN <<>>
                     ELSE serialise_rpc_message(out.new_msg)
         IN  /\ nServed' = [nServed EXCEPT ![cur] = @ + 1]
             /\ nReplied' = nReplied
             /\ lastServed' = [lastServed EXCEPT ![cur] =
                    [req |-> msg, handler |-> out.handler,
                     result |-> out.result, reply |-> out.new_msg,
                     fault |-> out.fault]]
             /\ IF out.fault
                THEN /\ spc' = "faulted"
                     /\ srvOut' = <<>>
                     /\ srvSize' = 0
                     /\ s2c' = s2c
                ELSE /\ spc' = "wait_echo"
                     /\ srvOut' = body
                     /\ srvSize' = Len(body)
                     /\ s2c' = [s2c EXCEPT ![cur] = @ \o SizeHeader(Len(body))]
    /\ c2s' = [c2s EXCEPT ![cur] = Drop(@, srvSize)]
    /\ UNCHANGED <<cx, ssock, handlers, keep_running, listening, backlog,
                   cur, regs,
                   cliVars>>

\* send_rpc_message reads the echo of the size and writes the body;
\* handle_request returns to the loop of handle_all_requests.
SrvSendBody ==
    /\ spc = "wait_echo"
    /\ Len(c2s[cur]) >= HeaderLen
    /\ ssock[cur] = "open"
    /\ LET n == deserialise_size_t(SubSeq(c2s[cur], 1, HeaderLen), 0).v
       IN  IF n = srvSize
           THEN /\ s2c' = [s2c EXCEPT ![cur] = @ \o srvOut]
                /\ nReplied' = [nReplied EXCEPT ![cur] = @ + 1]
           ELSE /\ s2c' = s2c
                /\ nReplied' = nReplied
    /\ c2s' = [c2s EXCEPT ![cur] = Drop(@, HeaderLen)]
    /\ spc' = "peek1"
    /\ srvOut' = <<>>
    /\ srvSize' = 0
    /\ UNCHANGED <<cx, ssock, handlers, keep_running, listening, backlog,
                   cur, regs,
                   nServed, lastServed, cliVars>>

\* The read of the body, or of the echo of the reply's size, meets the end
\* of the stream.
SrvBodyEOF ==
    /\ spc \in {"recv_body", "wait_echo"}
    /\ SrvReadEOF(IF spc = "recv_body" THEN srvSize ELSE HeaderLen)

\* The client process is ended from outside while it is connected; its
\* socket closes with it.
Killed(c) ==
    /\ cpc[c] \in {"idle", "wait_echo", "recv_hdr", "recv_body"}
    /\ csock[c] = "open"
    /\ cpc' = [cpc EXCEPT ![c] = "killed"]
    /\ csock' = [csock EXCEPT ![c] = "closed"]
    /\ UNCHANGED <<cx, nClose, srvVars, cop, handles, calls, c2s, s2c>>

(***************************************************************************)
(* Client.                                                                 *)
(***************************************************************************)
\* rpc_init_client: create_connection_socket connects.
InitClient(c) ==
    /\ cpc[c] = "init"
    /\ listening
    /\ ~ServerDead
    /\ cpc' = [cpc EXCEPT ![c] = "idle"]
    /\ csock' = [csock EXCEPT ![c] = "open"]
    /\ backlog' = Append(backlog, c)
    /\ UNCHANGED <<cx, ssock, nClose, spc, handlers, keep_running, listening,
                   cur,
                   srvSize,
                   srvOut, regs, served, cop, handles, calls, c2s, s2c>>

Started(c) == nDone[c] + (IF cop[c] = NoOp THEN 0 ELSE 1)

\* request -> send_rpc_message up to the read of the echo: the message is
\* serialised and the size header written.  write on a closed descriptor
\* returns -1, which write_bytes adds to its unsigned total: the assertion
\* total_bytes_written < size then stops the process.
StartRequest(c, kind, name, payload, req) ==
    /\ cpc[c] = "idle"
    /\ Started(c) < MaxReqs
    /\ LET body == serialise_rpc_message(req)
       IN  IF csock[c] = "open"
           THEN /\ cpc' = [cpc EXCEPT ![c] = "wait_echo"]
                /\ cop' = [cop EXCEPT ![c] =
                              [kind |-> kind, name |-> name,
                               payload |-> payload, req |-> req,
                               body |-> body, wrote |-> HeaderLen]]
                /\ c2s' = [c2s EXCEPT ![c] = @ \o SizeHeader(Len(body))]
           ELSE /\ cpc' = [cpc EXCEPT ![c] = "aborted"]
                /\ cop' = [cop EXCEPT ![c] =
                              [kind |-> kind, name |-> name,
                               payload |-> payload, req |-> req,
                               body |-> body, wrote |-> 0]]
                /\ c2s' = c2s
    /\ UNCHANGED <<cx, nClose, srvVars, csock, handles, calls, s2c>>

RpcFind(c, name) ==
    StartRequest(c, "find", name, NoData, find_request(name))

RpcCall(c, h, payload) ==
    /\ h \in handles[c]
    /\ StartRequest(c, "call", h.name, payload, call_request(h, payload))

\* The value rpc_find or rpc_call returns for the reply received (NoMsg when
\* request returned NULL), and the end of the call.
Return(c, reply) ==
    LET ret == IF cop[c].kind = "find"
               THEN find_result(cop[c].name, reply)
               ELSE call_result(reply)
    IN  /\ nDone' = [nDone EXCEPT ![c] = @ + 1]
        /\ lastCall' = [lastCall EXCEPT ![c] =
                        [kind |-> cop[c].kind, name |-> cop[c].name,
                         payload |-> cop[c].payload, req |-> cop[c].req,
                         wrote |-> cop[c].wrote, reply |-> reply,
                         ret |-> ret]]
        /\ handles' = [handles EXCEPT ![c] =
                          IF cop[c].kind = "find" /\ ret # NoHandle
                          THEN @ \cup {ret} ELSE @]
        /\ cop' = [cop EXCEPT ![c] = NoOp]
        /\ cpc' = [cpc EXCEPT ![c] = "idle"]

\* read_bytes meets the end of the stream: it closes the socket and the
\* call returns NULL.
ReadEOF(c, n) ==
    /\ Len(s2c[c]) < n
    /\ ServerDead
    /\ s2c' = [s2c EXCEPT ![c] = <<>>]
    /\ csock' = [csock EXCEPT ![c] = "closed"]
    /\ Return(c, NoMsg)
    /\ UNCHANGED <<cx, nClose, srvVars, c2s>>

\* send_rpc_message writing the body without reading the echo of the size.
CliSendBody_noecho(c) ==
    /\ cpc[c] = "wait_echo"
    /\ c2s' = [c2s EXCEPT ![c] = @ \o cop[c].body]
    /\ cop' = [cop EXCEPT ![c].wrote = @ + Len(cop[c].body)]
    /\ cpc' = [cpc EXCEPT ![c] = "recv_hdr"]
    /\ s2c' = [s2c EXCEPT ![c] = Drop(@, HeaderLen)]
    /\ UNCHANGED <<cx, nClose, srvVars, csock, calls, handles>>

\* send_rpc_message reads the echo of the size and writes the body.
CliSendBody(c) ==
    /\ cpc[c] = "wait_echo"
    /\ \/ /\ Len(s2c[c]) >= HeaderLen
          /\ LET n == deserialise_size_t(SubSeq(s2c[c], 1, HeaderLen), 0).v
             IN  IF n = Len(cop[c].body)
                 THEN /\ c2s' = [c2s EXCEPT ![c] = @ \o cop[c].body]
                      /\ cop' = [cop EXCEPT ![c].wrote = @ + Len(cop[c].body)]
                      /\ cpc' = [cpc EXCEPT ![c] = "recv_hdr"]
                      /\ UNCHANGED <<calls, handles>>
                 ELSE /\ c2s' = c2s
                      /\ Return(c, NoMsg)
          /\ s2c' = [s2c EXCEPT ![c] = Drop(@, HeaderLen)]
          /\ UNCHANGED <<cx, nClose, srvVars, csock>>
       \/ ReadEOF(c, HeaderLen)

\* receive_rpc_message reads the size header of the reply and echoes it.
CliRecvHeader(c) ==
    /\ cpc[c] = "recv_hdr"
    /\ \/ /\ Len(s2c[c]) >= HeaderLen
          /\ LET hdr == SubSeq(s2c[c], 1, HeaderLen)
             IN  /\ cop' = [cop EXCEPT ![c] =
                               [@ EXCEPT !.wrote = @ + HeaderLen] @@
                               [size |-> deserialise_size_t(hdr, 0).v]]
                 /\ c2s' = [c2s EXCEPT ![c] = @ \o hdr]
          /\ s2c' = [s2c EXCEPT ![c] = Drop(@, HeaderLen)]
          /\ cpc' = [cpc EXCEPT ![c] = "recv_body"]
          /\ UNCHANGED <<cx, nClose, srvVars, csock, handles, calls>>
       \/ ReadEOF(c, HeaderLen)

\* receive_rpc_message reads and deserialises the body; rpc_find or rpc_call
\* returns.
CliRecvBody(c) ==
    /\ cpc[c] = "recv_body"
    /\ \/ /\ cop[c].size > 0
          /\ Len(s2c[c]) >= cop[c].size
          /\ \E junk \in Junk :
               LET buf == SubSeq(s2c[c], 1, cop[c].size)
               IN  Return(c, deserialise_rpc_message(buf \o junk, 0).v)
          /\ s2c' = [s2c EXCEPT ![c] = Drop(@, cop[c].size)]
          /\ UNCHANGED <<cx, nClose, srvVars, csock, c2s>>
       \/ ReadEOF(c, cop[c].size)

\* rpc_close_client: close(cl->sockfd), free(cl->addr), free(cl).  Nothing
\* records that the client was closed: a second call on the same pointer
\* reads the freed struct, closes the descriptor number once more and frees
\* twice.  That is undefined: the allocator may stop the process or let the
\* call pass.
CloseClient(c) ==
    /\ nClose[c] < MaxCloses
    /\ \/ /\ cpc[c] = "idle"
          /\ cpc' = [cpc EXCEPT ![c] = "closed"]
       \/ /\ cpc[c] = "closed"
          /\ \E next \in {"closed", "aborted"} :
               cpc' = [cpc EXCEPT ![c] = next]
    /\ csock' = [csock EXCEPT ![c] = "closed"]
    /\ nClose' = [nClose EXCEPT ![c] = @ + 1]
    /\ UNCHANGED <<cx, srvVars, cop, handles, calls, c2s, s2c>>

(***************************************************************************)
(* Specification.                                                          *)
(***************************************************************************)
Next ==
    \/ \E name \in Names, handler \in Handlers : Register(name, handler)
    \/ ServeAll
    \/ Sigint
    \/ ServeLoop
    \/ LoopPeek
    \/ RequestPeek
    \/ SrvRecvHeader
    \/ SrvRecvBody
    \/ SrvSendBody
    \/ \E c \in Clients :
         \/ InitClient(c)
         \/ \E name \in Names : RpcFind(c, name)
         \/ \E h \in handles[c], payload \in Payloads : RpcCall(c, h, payload)
         \/ CliSendBody(c)
         \/ CliRecvHeader(c)
         \/ CliRecvBody(c)
         \/ CloseClient(c)

Spec == Init /\ [][Next]_vars

(***************************************************************************)
(* Two clients and one registered procedure, with the progress the         *)
(* processes make: the server process runs on whenever it is not waiting   *)
(* for bytes, and a client inside rpc_find or rpc_call runs on likewise.   *)
(* When a client calls, when it closes and when SIGINT arrives is left     *)
(* open.                                                                   *)
(***************************************************************************)
ServerStep ==
    \/ ServeAll
    \/ ServeLoop
    \/ LoopPeek
    \/ RequestPeek
    \/ SrvRecvHeader
    \/ SrvRecvBody
    \/ SrvSendBody

ClientStep(c) == CliSendBody(c) \/ CliRecvHeader(c) \/ CliRecvBody(c)

NextLive ==
    \/ Register(N_ab, "add2_i8")
    \/ ServerStep
    \/ Sigint
    \/ \E c \in Conns :
         \/ InitClient(c)
         \/ RpcFind(c, N_ab)
         \/ \E h \in handles[c] : h.name = N_ab /\ RpcCall(c, h, P_ok)
         \/ ClientStep(c)
         \/ CloseClient(c)

\* The server process is not waiting for bytes or connections: the call it
\* is in returns.
ServerReady ==
    \/ spc = "setup"
    \/ spc = "accept" /\ (~keep_running \/ backlog # <<>>)
    \/ spc \in {"peek1", "peek2"} /\ (c2s[cur] # <<>> \/ Eof)
    \/ spc \in {"recv_hdr", "wait_echo"}
          /\ (Len(c2s[cur]) >= HeaderLen \/ Eof)
    \/ spc = "recv_body" /\ srvSize > 0
          /\ (Len(c2s[cur]) >= srvSize \/ Eof)

\* A step by which the server process, being ready, gets on to its next
\* position.
ServerRuns ==
    /\ ServerReady
    /\ spc' \in {"accept", "peek1", "peek2", "recv_hdr", "recv_body",
                 "wait_echo", "faulted", "returned", "aborted"} \ {spc}

\* The read a client is in returns: the bytes are there, or the server
\* process has ended and the stream with it.
ClientReady(c) ==
    \/ cpc[c] \in {"wait_echo", "recv_hdr"}
          /\ (Len(s2c[c]) >= HeaderLen \/ ServerDead)
    \/ cpc[c] = "recv_body"
          /\ ((cop[c].size > 0 /\ Len(s2c[c]) >= cop[c].size) \/ ServerDead)

ClientRuns(c) ==
    /\ ClientReady(c)
    /\ \E p \in {"idle", "recv_hdr", "recv_body"} \ {cpc[c]} :
         cpc' = [cpc EXCEPT ![c] = p]

\* The processes are scheduled: a ready process takes its step.
SpecLive ==
    /\ Init
    /\ [][NextLive]_vars
    /\ WF_spc(ServerRuns)
    /\ \A c \in Conns : WF_cpc(ClientRuns(c))

(***************************************************************************)
(* The same, with clients whose process is ended from outside at any time  *)
(* while connected, a request half sent or a reply half read.              *)
(***************************************************************************)
NextDrop ==
    \/ NextLive
    \/ SrvBodyEOF
    \/ \E c \in Conns : Killed(c)

SpecDrop == Init /\ [][NextDrop]_vars

(***************************************************************************)
(* The codec in isolation: a value is drawn, serialised into a fresh       *)
(* buffer, and the buffer is deserialised with arbitrary memory behind it. *)
(***************************************************************************)
MaxSize == 40

IntMin == -2147483647 - 1

IntInputs ==
    {IntMin, -2147483647, -16777216, -65536, -256, -129, -128, -1, 0, 1,
     127, 128, 255, 256, 65535, 16777216, 2147483647,
     REQUEST_ID_CLIENT, REQUEST_ID_SERVER}

SizeInputs ==
    (0..MaxSize)
    \cup {Pow2(k) - 2 : k \in 7..19} \cup {Pow2(k) - 1 : k \in 7..19}
    \cup {Pow2(k) : k \in 7..19}
    \cup {MAX_MESSAGE_BYTE_SIZE - 1, MAX_MESSAGE_BYTE_SIZE}

\* Operation tags: the four of the protocol and two that are none of them.
OpInputs == {FIND, CALL, REPLY, REPLY_FAILURE, 7, -1}

MsgInputs ==
    {new_rpc_message(id, op, fn, d) :
        id \in {REQUEST_ID_CLIENT, -1, 2147483647, IntMin},
        op \in OpInputs,
        fn \in {N_ab, <<120>>, <<97, 100, 100>>},
        d \in {P_ok, P_empty, Data(-5, 3, TRUE, <<0, 255, 1>>),
                Data(IntMin, 2, TRUE, <<0, 0>>), P_nobytes, P_nolen}}

\* Body lengths handed to send_rpc_message.
BodySizes == {1, MaxSize, MAX_MESSAGE_BYTE_SIZE, 1048574, 1048575, 2000000}

\* Size headers a peer may write: HeaderLen arbitrary bytes.
PeerHeaders ==
    {SizeHeader(MaxSize), SizeHeader(MAX_MESSAGE_BYTE_SIZE),
     SizeHeader(1048574), Zeros(20) \o <<1>> \o Zeros(18),
     Zeros(21) \o <<1>> \o Zeros(17)}

\* Message bodies a peer may write: a message whose last drop bytes, bytes
\* of data2, were never sent, the size header announcing the shorter body.
ShortBodies ==
    [msg : {new_rpc_message(REQUEST_ID_CLIENT, CALL, N_ab, d) :
                d \in {P_ok, Data(-5, 3, TRUE, <<0, 255, 1>>)}},
     drop : {1}]

CodecInputs ==
    [kind : {"int"}, in : IntInputs]
    \cup [kind : {"size_t"}, in : SizeInputs]
    \cup [kind : {"message"}, in : MsgInputs]
    \cup [kind : {"header"}, in : BodySizes]
    \cup [kind : {"peer_header"}, in : PeerHeaders]
    \cup [kind : {"short_body"}, in : ShortBodies]

InitCodec ==
    /\ ProgramInit
    /\ \E i \in CodecInputs :
         cx = [kind |-> i.kind, in |-> i.in, stage |-> "value",
               bytes |-> <<>>, adv |-> 0, out |-> NoOp, next |-> 0]

\* The bytes in the buffer and the advance of its cursor.
Encode(kind, in, fill) ==
    CASE kind = "int" ->
           [bytes |-> serialise_int(in), adv |-> 8]
      [] kind = "size_t" ->
           [bytes |-> serialise_size_t(in),
            adv |-> gamma_code_length(in + 1)]
      [] kind = "message" ->
           [bytes |-> serialise_rpc_message(in),
            adv |-> Len(serialise_rpc_message(in))]
      [] kind = "header" ->
           [bytes |-> SizeHeaderFill(in, fill),
            adv |-> Len(SizeHeaderFill(in, fill))]
      [] kind = "peer_header" ->
           [bytes |-> in, adv |-> Len(in)]
      [] kind = "short_body" ->
           LET whole == serialise_rpc_message(in.msg)
           IN  [bytes |-> SubSeq(whole, 1, Len(whole) - in.drop),
                adv |-> Len(whole) - in.drop]

\* The value read back and the cursor after it.
Decode(kind, bytes, junk) ==
    CASE kind = "int" -> deserialise_int(bytes \o junk, 0)
      [] kind = "size_t" -> deserialise_size_t(bytes \o junk, 0)
      [] kind \in {"message", "short_body"} ->
           deserialise_rpc_message(bytes \o junk, 0)
      [] kind \in {"header", "peer_header"} ->
           receive_size(SubSeq(bytes, 1, HeaderLen), junk)

Serialise ==
    /\ cx # NoOp
    /\ cx.stage = "value"
    /\ \E fill \in {0, 255} :
         LET e == Encode(cx.kind, cx.in, fill)
         IN  cx' = [cx EXCEPT !.stage = "bytes", !.bytes = e.bytes,
                              !.adv = e.adv]
    /\ UNCHANGED <<srvVars, cliVars, c2s, s2c>>

Deserialise ==
    /\ cx # NoOp
    /\ cx.stage = "bytes"
    /\ \E junk \in Junk :
         LET d == Decode(cx.kind, cx.bytes, junk)
         IN  cx' = [cx EXCEPT !.stage = "decoded", !.out = d.v,
                              !.next = d.next]
    /\ UNCHANGED <<srvVars, cliVars, c2s, s2c>>

NextCodec == Serialise \/ Deserialise

SpecCodec == InitCodec /\ [][NextCodec]_vars

(***************************************************************************)
(* Single calls in isolation: a function is called once, with the outcome  *)
(* of every system call it makes, and what the peer sends, drawn freely.   *)
(***************************************************************************)
MAX_NAME_LENGTH == 1000

\* Addresses getaddrinfo may resolve a host to.
MaxAddrs == 2

\* The descriptor socket() returns when it succeeds.
Fd == 3

NoServer == [nil |-> TRUE]
NoClient == [nil |-> TRUE]

\* create_listening_socket: sys says which of its system calls succeed.  The
\* value returned and what the descriptor, if any, is bound to.
create_listening_socket(sys) ==
    IF ~sys.getaddrinfo THEN [sockfd |-> FAILED, state |-> "none"]
    ELSE IF ~sys.socket THEN [sockfd |-> -1, state |-> "none"]
    ELSE IF ~sys.setsockopt \/ ~sys.bind
         THEN [sockfd |-> Fd, state |-> "unbound"]
         ELSE [sockfd |-> Fd, state |-> "bound"]

\* rpc_init_server: the server state returned.
rpc_init_server(sys) ==
    LET s == create_listening_socket(sys)
    IN  [sockfd |-> s.sockfd, state |-> s.state,
         handlers |-> hashtable_create]

\* create_connection_socket, the loop over the resolved addresses from the
\* i-th on; sock is sockfd as the iterations before left it.  An address
\* is "nosocket" (socket fails), "refused" (connect fails; the descriptor
\* is closed) or "connected".  rp = 0 stands for rp == NULL.
RECURSIVE connect_loop(_, _, _)
connect_loop(addrs, i, sock) ==
    IF i > Len(addrs)
    THEN [sockfd |-> sock.sockfd, state |-> sock.state, rp |-> 0]
    ELSE IF addrs[i] = "nosocket"
    THEN connect_loop(addrs, i + 1, [sockfd |-> FAILED, state |-> "none"])
    ELSE IF addrs[i] = "connected"
    THEN [sockfd |-> Fd, state |-> "connected", rp |-> i]
    ELSE connect_loop(addrs, i + 1, [sockfd |-> Fd, state |-> "closed"])

create_connection_socket(getaddrinfo, addrs) ==
    IF ~getaddrinfo
    THEN [sockfd |-> FAILED, state |-> "none", rp |-> 0]
    ELSE connect_loop(addrs, 1, [sockfd |-> FAILED, state |-> "none"])

\* rpc_init_client: the client state returned.
rpc_init_client(addr, port, getaddrinfo, addrs) ==
    IF addr = NULL \/ port < 0 THEN NoClient
    ELSE create_connection_socket(getaddrinfo, addrs)

\* A name of n bytes.
RECURSIVE LongName(_)
LongName(n) ==
    IF n = 0 THEN <<>>
    ELSE IF n % 2 = 1 THEN <<97>> \o LongName(n - 1)
    ELSE LongName(n \div 2) \o LongName(n \div 2)

NameInputs ==
    {<<>>, <<97>>, N_ab, N_dc, LongName(MAX_NAME_LENGTH),
     LongName(MAX_NAME_LENGTH + 1)}

\* A registry with a bucket for each of these names: empty, holding "ab",
\* or holding "ab" and "dc", which share a bucket, entered in either order.
SetupTables ==
    LET empty == [i \in {Index(n) : n \in NameInputs} |-> <<>>]
        ab == hashtable_insert(empty, N_ab, "sub2_i8")
        dc == hashtable_insert(empty, N_dc, "tst_h")
    IN  {empty, ab, hashtable_insert(ab, N_dc, "tst_h"),
         hashtable_insert(dc, N_ab, "sub2_i8")}

AddrLists ==
    UNION {[1..n -> {"nosocket", "refused", "connected"}] : n \in 1..MaxAddrs}

\* send_rpc_message of protocol.c from the read of the echo on: size is the
\* size announced, n the size the echo decodes to.  The body bytes written,
\* the value returned, and whether the process was ended.
send_rpc_message(size, n) ==
    IF n # size
    THEN [body |-> 0, exit |-> FALSE, result |-> FAILED]
    ELSE [body |-> size, exit |-> FALSE, result |-> 0]

\* send_rpc_message as rpc.c defines it: a different echo ends the process
\* with exit(EXIT_FAILURE), and nothing is returned.
rpc_send_rpc_message(size, n) ==
    IF n # size
    THEN [body |-> 0, exit |-> TRUE]
    ELSE [body |-> size, exit |-> FALSE, result |-> 0]

\* request, as far as send_rpc_message decides it: NoMsg is returned to
\* rpc_find or rpc_call when the send failed; otherwise the reply is awaited.
request(sent) ==
    IF sent.exit THEN sent
    ELSE IF sent.result = FAILED THEN sent @@ [reply |-> NoMsg]
    ELSE sent

\* rpc_find and rpc_call reach the request and send_rpc_message of rpc.c;
\* the send_rpc_message of protocol.c is called through its own request.
Send(file, size, n) ==
    IF file = "rpc.c" THEN request(rpc_send_rpc_message(size, n))
    ELSE request(send_rpc_message(size, n))

\* Who holds the memory of the payload rpc_call was given: the record and,
\* if the payload has them, its data2 bytes.
Owned(payload) ==
    [record |-> "caller",
     data2 |-> IF payload.has2 THEN "caller" ELSE "absent"]

\* rpc_data_free: free(data->data2) if it is not NULL, then free(data).
rpc_data_free(mem) ==
    [record |-> "freed",
     data2 |-> IF mem.data2 = "absent" THEN "absent" ELSE "freed"]

\* free_rpc_message(message, free_data), as far as message->data goes.
free_rpc_message(mem, free_data) ==
    IF free_data = NULL THEN mem ELSE rpc_data_free(mem)

\* rpc_call, as far as the caller's payload goes: new_rpc_message puts the
\* pointer into the request, and request frees the request after
\* send_rpc_message, whether that failed or not: with rpc_data_free in
\* rpc.c, with NULL in protocol.c.
rpc_call_payload(file, payload, sent) ==
    LET free_data == IF file = "rpc.c" THEN "rpc_data_free" ELSE NULL
    IN  IF sent
        THEN free_rpc_message(Owned(payload), free_data)
        ELSE free_rpc_message(Owned(payload), free_data)

\* The longest transfer asked of read_bytes and write_bytes, and the most
\* calls of read or write that fail during one of them.
MaxIO == 3
MaxErrs == 2

\* memcpy at the start of the buffer instead of buf + total.
Place_start(buf, total, bytes) ==
    bytes \o SubSeq(buf, Len(bytes) + 1, Len(buf))

\* What read leaves in buf when it stores bytes at buf + total.
Place(buf, total, bytes) ==
    SubSeq(buf, 1, total) \o bytes
    \o SubSeq(buf, total + Len(bytes) + 1, Len(buf))

\* The state of read_bytes or write_bytes as the loop is entered.  data is
\* buf for read_bytes and the bytes the socket took for write_bytes; taken
\* counts the bytes read off the stream; clean says that every call of
\* read or write so far transferred a positive number of bytes, errs counts
\* those that returned -1, last is what the last one returned.
IoEnter(size) ==
    [pc |-> "loop", total |-> 0, data |-> <<>>, taken |-> 0,
     sock |-> "open", iters |-> 0, clean |-> TRUE, errs |-> 0, last |-> 0,
     result |-> 0]

\* The end of an iteration: total_bytes += bytes with bytes a size_t, so
\* that a return value of -1 counts as 2^64 - 1: total goes one down, or
\* from 0 to 2^64 - 1, where the assertion total < size of the next
\* iteration stops the process.  total = size ends the loop.
IoAdvance(st, size, r) ==
    LET total == st.total + r
        s == [st EXCEPT !.iters = @ + 1, !.last = r,
                        !.clean = @ /\ r > 0,
                        !.errs = IF r < 0 THEN @ + 1 ELSE @]
    IN  IF total = size
        THEN [s EXCEPT !.pc = "returned", !.total = total, !.result = total]
        ELSE IF total < 0 THEN [s EXCEPT !.pc = "aborted"]
        ELSE [s EXCEPT !.total = total]

\* One iteration of read_bytes: read(sockfd, buf + total, size - total)
\* returns r.  bytes_read < 0 is never true of a size_t; 0 closes the
\* socket and returns FAILED.
read_bytes(st, size, src, r) ==
    IF r = 0
    THEN [st EXCEPT !.pc = "returned", !.result = FAILED,
                    !.sock = "closed", !.iters = @ + 1, !.last = 0,
                    !.clean = FALSE]
    ELSE IF r < 0 THEN IoAdvance(st, size, r)
    ELSE IoAdvance(
             [st EXCEPT !.data = Place(IF @ = <<>> THEN Zeros(size) ELSE @,
                                       st.total,
                                       SubSeq(src, st.taken + 1,
                                              st.taken + r)),
                        !.taken = @ + r],
             size, r)

\* One iteration of write_bytes: write(sockfd, buf + total, size - total)
\* returns r.  bytes_written < 0 is never true of a size_t.
write_bytes(st, size, src, r) ==
    IF r <= 0 THEN IoAdvance(st, size, r)
    ELSE IoAdvance(
             [st EXCEPT !.data = @ \o SubSeq(src, st.total + 1,
                                             st.total + r)],
             size, r)

\* The bytes to transfer: the stream read from (longer than any read asks
\* for) or the buffer written.
IoBytes == [i \in 1..(MaxIO + MaxErrs) |-> 10 + i]

CallInputs ==
    [kind : {"init_server"},
     in : [getaddrinfo : BOOLEAN, socket : BOOLEAN, setsockopt : BOOLEAN,
           bind : BOOLEAN]]
    \cup [kind : {"init_client"},
          in : [addr : {NULL, "host"}, port : {-1, 3000},
                getaddrinfo : BOOLEAN, addrs : AddrLists]]
    \cup [kind : {"register"},
          in : [table : SetupTables, name : NameInputs,
                handler : {NULL, "add2_i8"}]
               \cup [table : SetupTables, name : {NULL},
                     handler : {NULL, "add2_i8"}]]
    \cup [kind : {"read_bytes", "write_bytes"}, in : [size : 1..MaxIO]]
    \cup [kind : {"handle_request"},
          in : [table : SetupTables,
                msg : {new_rpc_message(REQUEST_ID_CLIENT, op, N_ab, d) :
                          op \in OpInputs, d \in {P_ok, P_empty}}]]
    \cup [kind : {"send"},
          in : [file : {"rpc.c", "protocol.c"}, size : {1, MaxSize},
                n : {0, 1, MaxSize, MaxSize + 1}]]
    \cup [kind : {"rpc_call"},
          in : [file : {"rpc.c", "protocol.c"}, payload : {P_ok, P_empty},
                sent : BOOLEAN]]
    \cup [kind : {"reregister"},
          in : [table : {t \in SetupTables :
                           hashtable_lookup(t, N_ab) # NULL},
                name : {N_ab}, handler : {"add2_i8"}]]
    \cup {i \in [kind : {"reserve_space"},
                  in : [capacity : 0..MaxIO, next : 0..MaxIO,
                        size : 0..(MaxIO + MaxErrs)]] :
             i.in.next <= i.in.capacity}

InitCalls ==
    /\ ProgramInit
    /\ \E i \in CallInputs :
         cx = [kind |-> i.kind, in |-> i.in, stage |-> "value", out |-> NoOp]

Call(kind, out) ==
    /\ cx # NoOp
    /\ cx.kind = kind
    /\ cx.stage = "value"
    /\ cx' = [cx EXCEPT !.stage = "returned", !.out = out]
    /\ UNCHANGED <<srvVars, cliVars, c2s, s2c>>

CallInitServer == Call("init_server", rpc_init_server(cx.in))

CallInitClient ==
    Call("init_client",
         rpc_init_client(cx.in.addr, cx.in.port, cx.in.getaddrinfo,
                         cx.in.addrs))

CallRegister ==
    Call("register", rpc_register(cx.in.table, cx.in.name, cx.in.handler))

CallSend == Call("send", Send(cx.in.file, cx.in.size, cx.in.n))

\* handle_request with the message receive_rpc_message returned.
CallHandleRequest ==
    Call("handle_request", handle_request(cx.in.table, cx.in.msg))

\* read_bytes or write_bytes is entered.
CallIo ==
    /\ cx # NoOp
    /\ cx.kind \in {"read_bytes", "write_bytes"}
    /\ cx.stage = "value"
    /\ cx' = [cx EXCEPT !.stage = "loop", !.out = IoEnter(cx.in.size)]
    /\ UNCHANGED <<srvVars, cliVars, c2s, s2c>>

\* One iteration: the system call transfers some of the bytes asked for,
\* meets the end of the stream (read) or fails.
IoIteration ==
    /\ cx # NoOp
    /\ cx.stage = "loop"
    /\ \E r \in -1..(cx.in.size - cx.out.total) :
         /\ cx.kind = "write_bytes" => r # 0
         /\ r < 0 => cx.out.errs < MaxErrs
         /\ LET st == IF cx.kind = "read_bytes"
                      THEN read_bytes(cx.out, cx.in.size, IoBytes, r)
                      ELSE write_bytes(cx.out, cx.in.size, IoBytes, r)
            IN  cx' = [cx EXCEPT !.stage = st.pc, !.out = st]
    /\ UNCHANGED <<srvVars, cliVars, c2s, s2c>>

\* new_buffer(capacity), next bytes written into it, and reserve_space
\* entered.  calloc(0, 1) gives NULL, where new_buffer stops at its
\* assertion, or a pointer to no bytes.
CallReserve ==
    /\ cx # NoOp
    /\ cx.kind = "reserve_space"
    /\ cx.stage = "value"
    /\ \/ cx' = [cx EXCEPT !.stage = "reserving",
                            !.out = [size |-> cx.in.capacity,
                                     next |-> cx.in.next,
                                     data |-> SubSeq(IoBytes, 1, cx.in.next)]]
       \/ /\ cx.in.capacity = 0
          /\ cx' = [cx EXCEPT !.stage = "no_buffer"]
    /\ UNCHANGED <<srvVars, cliVars, c2s, s2c>>

\* The loop of reserve_space: its test, and one turn of it.  b->size *= 2
\* leaves a size of 0 at 0; realloc(b->data, 0) frees the block and gives
\* NULL, where the assertion stops the process, or gives a pointer to no
\* bytes, and the loop turns again.  realloc to a larger size keeps the bytes.
ReserveIteration ==
    /\ cx # NoOp
    /\ cx.stage = "reserving"
    /\ LET b == cx.out
       IN  IF b.next + cx.in.size > b.size
           THEN \/ cx' = [cx EXCEPT !.out.size = 2 * b.size]
                \/ /\ 2 * b.size = 0
                   /\ cx' = [cx EXCEPT !.stage = "aborted", !.out.size = 0]
           ELSE cx' = [cx EXCEPT !.stage = "returned"]
    /\ UNCHANGED <<srvVars, cliVars, c2s, s2c>>

\* rpc_register is entered for a name the registry holds, while the
\* registry is in use by the thread that serves.
CallReregister ==
    /\ cx # NoOp
    /\ cx.kind = "reregister"
    /\ cx.stage = "value"
    /\ cx' = [cx EXCEPT !.stage = "registering",
                        !.out = [pc |-> "lookup", handlers |-> cx.in.table,
                                 seen |-> "nothing", ret |-> 0]]
    /\ UNCHANGED <<srvVars, cliVars, c2s, s2c>>

\* The calls rpc_register makes on srv->handlers, one at a time:
\* hashtable_lookup, hashtable_remove if the name was found,
\* hashtable_insert, and hashtable_lookup again.  No lock is taken.
RegisterStep ==
    /\ cx # NoOp
    /\ cx.stage = "registering"
    /\ LET t == cx.out.handlers
           found == hashtable_lookup(t, cx.in.name) # NULL
       IN  CASE cx.out.pc = "lookup" ->
                  cx' = [cx EXCEPT !.out.pc = IF found THEN "remove"
                                               ELSE "insert"]
             [] cx.out.pc = "remove" ->
                  cx' = [cx EXCEPT !.out.pc = "insert",
                                   !.out.handlers =
                                       hashtable_remove(t, cx.in.name)]
             [] cx.out.pc = "insert" ->
                  cx' = [cx EXCEPT !.out.pc = "check",
                                   !.out.handlers =
                                       hashtable_insert(t, cx.in.name,
                                                        cx.in.handler)]
             [] cx.out.pc = "check" ->
                  cx' = [cx EXCEPT !.stage = "returned",
                                   !.out.pc = "done",
                                   !.out.ret = IF found THEN 0 ELSE FAILED]
    /\ UNCHANGED <<srvVars, cliVars, c2s, s2c>>

\* handle_request, in the thread that serves, looks the name up in
\* srv->handlers.
ServedLookup ==
    /\ cx # NoOp
    /\ cx.stage = "registering"
    /\ cx' = [cx EXCEPT !.out.seen =
                  hashtable_lookup(cx.out.handlers, cx.in.name)]
    /\ UNCHANGED <<srvVars, cliVars, c2s, s2c>>

CallRpcCall ==
    Call("rpc_call",
         rpc_call_payload(cx.in.file, cx.in.payload, cx.in.sent))

NextCalls ==
    \/ CallInitServer
    \/ CallInitClient
    \/ CallRegister
    \/ CallSend
    \/ CallHandleRequest
    \/ CallIo
    \/ IoIteration
    \/ CallReserve
    \/ ReserveIteration
    \/ CallRpcCall
    \/ CallReregister
    \/ RegisterStep
    \/ ServedLookup

SpecCalls == InitCalls /\ [][NextCalls]_vars

(***************************************************************************)
(* Properties.                                                             *)
(***************************************************************************)
\* The last call of client c was answered, and the request the server last
\* dispatched on c's connection is the request of that call.
Matched(c) ==
    /\ lastCall[c] # NoOp
    /\ lastCall[c].reply # NoMsg
    /\ nServed[c] = nDone[c]

Registered(n) == lastReg[n] # NULL

C2_FindIffRegistered ==
    \A c \in Clients :
        (lastCall[c] # NoOp /\ lastCall[c].kind = "find") =>
        /\ lastCall[c].req.operation = FIND
        /\ lastCall[c].req.function_name = lastCall[c].name
        /\ lastCall[c].ret # NoHandle =>
            /\ Registered(lastCall[c].name)
            /\ lastCall[c].ret = new_rpc_handle(lastCall[c].name)
        /\ lastCall[c].reply = NoMsg => ServerDead
        /\ Matched(c) =>
            /\ lastServed[c].req = lastCall[c].req
            /\ lastCall[c].reply = lastServed[c].reply
            /\ lastCall[c].reply.function_name = lastCall[c].name
            /\ lastCall[c].reply.data
                   = Data(IF Registered(lastCall[c].name) THEN 1 ELSE 0,
                          0, FALSE, <<>>)
            /\ (lastCall[c].ret # NoHandle) <=> Registered(lastCall[c].name)

\* C2 witness: a find of a registered name returned a handle.
C2_Witness ==
    \E c \in Clients :
        /\ Matched(c)
        /\ lastCall[c].kind = "find"
        /\ Registered(lastCall[c].name)
        /\ lastCall[c].ret = new_rpc_handle(lastCall[c].name)

\* C3: no register call fails; once a name has been registered, lookup
\* returns the handler registered last under it, and every CallRequest for
\* the name is dispatched to that handler.
C3_RegistryOverwrite ==
    /\ ~regFailed
    /\ \A n \in Names : hashtable_lookup(handlers, n) = lastReg[n]
    /\ \A c \in Clients :
          (lastServed[c] # NoOp /\ lastServed[c].req.operation = CALL
              /\ lastServed[c].req.function_name \in Names) =>
          lastServed[c].handler = lastReg[lastServed[c].req.function_name]

\* C3 witness: "ab" was registered with one handler, then with another one,
\* and a CallRequest for "ab" was dispatched to the second.
C3_Witness ==
    \E c \in Clients :
        /\ prevReg[N_ab] # NULL
        /\ prevReg[N_ab] # lastReg[N_ab]
        /\ lastServed[c] # NoOp
        /\ lastServed[c].req.operation = CALL
        /\ lastServed[c].req.function_name = N_ab
        /\ lastServed[c].handler = lastReg[N_ab]

\* C4: the registry holds at most one entry per name.
C4_OneEntryPerName ==
    \A b \in Buckets :
        \A i, j \in 1..Len(handlers[b]) :
            handlers[b][i].key = handlers[b][j].key => i = j

\* C4 witness: a name was registered twice and a second name fell in the
\* same bucket.
C4_Witness ==
    /\ prevReg[N_ab] # NULL
    /\ Len(handlers[Index(N_ab)]) = 2

\* C5 (as claimed): whenever the server is not in the middle of sending a
\* reply, it has sent one reply for each request it dispatched on the
\* connection.
C5_OneReplyPerRequest ==
    (spc # "wait_echo" /\ keep_running) =>
        \A c \in Clients :
            (lastServed[c] # NoOp
                /\ lastServed[c].req.operation \in {FIND, CALL}) =>
            nReplied[c] = nServed[c]

\* C6 (as claimed): a reply carries the request_id of its request.
C6_ReplyEchoesRequestId ==
    \A c \in Clients :
        (lastServed[c] # NoOp /\ lastServed[c].reply # NoMsg) =>
        lastServed[c].reply.request_id = lastServed[c].req.request_id

\* C7 (as claimed): a CallRequest for a name without a handler is answered
\* with ReplyFailure and the server goes on.
C7_UnknownNameReplyFailure ==
    \A c \in Clients :
        (lastServed[c] # NoOp /\ lastServed[c].req.operation = CALL
            /\ hashtable_lookup(handlers, lastServed[c].req.function_name)
                   = NULL) =>
        /\ ~lastServed[c].fault
        /\ lastServed[c].reply # NoMsg
        /\ lastServed[c].reply.operation = REPLY_FAILURE

\* C8 (as claimed): when the handler returns NULL or a malformed payload the
\* server replies ReplyFailure, the call returns nothing and the server goes
\* on.
C8_BadHandlerResultReplyFailure ==
    \A c \in Clients :
        (lastServed[c] # NoOp /\ lastServed[c].handler # NULL
            /\ ~WellFormed(lastServed[c].result)) =>
        /\ ~lastServed[c].fault
        /\ lastServed[c].reply.operation = REPLY_FAILURE
        /\ (Matched(c) /\ lastCall[c].kind = "call") =>
               lastCall[c].ret = NoData

\* C9 (as claimed): a call with a malformed payload writes no byte to the
\* connection.
C9_MalformedCallWritesNothing ==
    \A c \in Clients :
        (cop[c] # NoOp /\ cop[c].kind = "call"
            /\ ~WellFormed(cop[c].payload)) =>
        cop[c].wrote = 0

\* C10 (as claimed): no body carrying a payload that violates
\* data2_len = 0 <=> data2 absent is sent, by the client or by the server.
C10_OnlyWellFormedOnWire ==
    \A c \in Clients :
        /\ (cop[c] # NoOp /\ cop[c].kind = "call"
                /\ cop[c].wrote > HeaderLen) =>
               WellFormed(cop[c].payload)
        /\ (lastServed[c] # NoOp /\ nReplied[c] = nServed[c]
                /\ lastServed[c].reply # NoMsg) =>
               WellFormed(lastServed[c].reply.data)

Decoded(kind) == cx # NoOp /\ cx.kind = kind /\ cx.stage = "decoded"

ProtocolOp(op) == op \in {FIND, CALL, REPLY, REPLY_FAILURE}

\* C14: for a well-formed message, deserialise_rpc_message applied to the
\* bytes serialise_rpc_message produced yields the same message, field by
\* field and every data2 byte included, and consumes exactly those bytes.
C14_MessageRoundTrip ==
    (Decoded("message") /\ ProtocolOp(cx.in.operation)
        /\ WellFormed(cx.in.data)) =>
    /\ cx.out = cx.in
    /\ cx.out.data.data2 = cx.in.data.data2
    /\ cx.next = Len(cx.bytes)

\* C14 witness: a ReplyFailure message with the three data2 bytes 0, 255, 1
\* and the most negative request_id came back unchanged.
C14_Witness ==
    /\ Decoded("message")
    /\ cx.in.operation = REPLY_FAILURE
    /\ cx.in.request_id = IntMin
    /\ cx.in.data.data2 = <<0, 255, 1>>
    /\ cx.out = cx.in

\* C15: for 0 <= v <= 1,000,000 the gamma decoder returns the value that
\* was encoded, the encoder writes and advances by 2*floor(log2(v+1)) + 1
\* bytes, and the decoder advances by as many.
C15_GammaRoundTrip ==
    (Decoded("size_t") /\ cx.in <= MAX_MESSAGE_BYTE_SIZE) =>
    /\ cx.out = cx.in
    /\ cx.adv = 2 * FloorLog2(cx.in + 1) + 1
    /\ Len(cx.bytes) = cx.adv
    /\ cx.next = cx.adv

\* C15 witness: the largest length, 1,000,000, came back from its 39 bytes.
C15_Witness ==
    /\ Decoded("size_t")
    /\ cx.in = MAX_MESSAGE_BYTE_SIZE
    /\ cx.out = MAX_MESSAGE_BYTE_SIZE
    /\ cx.next = 39

C17_ReceiveSizeBounded ==
    Decoded("peer_header") =>
        (0 <= cx.out /\ cx.out <= MAX_MESSAGE_BYTE_SIZE)

\* C18 (as claimed): whatever the body length, the size header
\* send_rpc_message writes is exactly 39 bytes.
C18_HeaderIs39Bytes ==
    (cx # NoOp /\ cx.kind = "header" /\ cx.stage # "value") =>
        Len(cx.bytes) = 39

\* C19 (as claimed): decoding a message whose operation is none of 0, 1, 2,
\* 3 yields no message.
C19_UnknownTagRejected ==
    (Decoded("message") /\ ~ProtocolOp(cx.in.operation)) =>
        cx.out = NoMsg

\* C20 (as claimed): rpc_close_client on an already closed client does
\* nothing: the socket is closed and the client state released once,
\* however often it is called.
C20_CloseIdempotent ==
    \A c \in Clients : nClose[c] <= 1

InFlight(c) == cpc[c] \in {"wait_echo", "recv_hdr", "recv_body"}

\* C11 (as claimed): connections are served concurrently: a request sent on
\* a connection is answered whatever the other connection does, also while
\* that one stays open and idle (no SIGINT arriving).
C11_ConnectionsServedConcurrently ==
    \A c \in Conns :
        (InFlight(c) /\ keep_running) ~> (cpc[c] = "idle" \/ ~keep_running)

\* C12 (as claimed): once SIGINT has cleared the running flag, rpc_serve_all
\* eventually returns to its caller, whether or not clients are connected.
C12_SigintReturns ==
    (~keep_running) ~> (spc = "returned")

\* C13 (as claimed): a worker that has left its request loop, the client
\* having closed between requests, has closed the socket of the connection.
C13_WorkerClosesSocket ==
    \A c \in Clients :
        (ssock[c] # "none" /\ cur # c) => ssock[c] = "closed"

Returned(kind) == cx # NoOp /\ cx.kind = kind /\ cx.stage = "returned"

\* C21 (as claimed): if resolving the address, creating the socket, setting
\* SO_REUSEADDR or binding fails, rpc_init_server returns NULL; a server
\* state it returns holds a valid, bound listening socket.
C21_InitServerFailureReturnsNull ==
    Returned("init_server") =>
        /\ (~cx.in.getaddrinfo \/ ~cx.in.socket \/ ~cx.in.setsockopt
               \/ ~cx.in.bind) => cx.out = NoServer
        /\ cx.out # NoServer =>
               (cx.out.sockfd >= 0 /\ cx.out.state = "bound")

FirstConnected(addrs) ==
    IF \E i \in DOMAIN addrs : addrs[i] = "connected"
    THEN CHOOSE i \in DOMAIN addrs :
             /\ addrs[i] = "connected"
             /\ \A j \in 1..(i - 1) : addrs[j] # "connected"
    ELSE 0

\* C22 (as claimed): rpc_init_client returns a client connected on the
\* first address that connects; if resolving fails or no address connects
\* it returns NULL, never a client whose descriptor is unconnected or
\* closed.
C22_InitClientConnectedOrNull ==
    Returned("init_client") =>
        /\ (~cx.in.getaddrinfo \/ FirstConnected(cx.in.addrs) = 0) =>
               cx.out = NoClient
        /\ cx.out # NoClient =>
               /\ cx.out.state = "connected"
               /\ cx.out.sockfd >= 0
               /\ cx.out.rp = FirstConnected(cx.in.addrs)

\* C23 (as claimed): rpc_register with an empty name or a name of more than
\* MAX_NAME_LENGTH bytes returns FAILED and leaves the registry as it was.
C23_RegisterChecksNameLength ==
    (Returned("register") /\ cx.in.name # NULL
        /\ (Len(cx.in.name) = 0 \/ Len(cx.in.name) > MAX_NAME_LENGTH)) =>
        /\ cx.out.ret = FAILED
        /\ cx.out.handlers = cx.in.table

\* The size an echo of HeaderLen bytes at the head of stream decodes to
\* (FAILED while the echo is not there).
EchoAt(stream) ==
    IF Len(stream) >= HeaderLen
    THEN deserialise_size_t(SubSeq(stream, 1, HeaderLen), 0).v
    ELSE FAILED

\* The steps of the exchange of a request on connection c, the client
\* sending and the server receiving.
RequestOrder(c) ==
    /\ (spc = "recv_hdr" /\ cur = c /\ spc' = "recv_body") =>
           /\ SubSeq(c2s[c], 1, HeaderLen) = SizeHeader(Len(cop[c].body))
           /\ s2c'[c] = s2c[c] \o SubSeq(c2s[c], 1, HeaderLen)
           /\ srvSize' = Len(cop[c].body)
    /\ (cpc[c] = "wait_echo" /\ Len(c2s'[c]) > Len(c2s[c])) =>
           /\ EchoAt(s2c[c]) = Len(cop[c].body)
           /\ c2s[c] = <<>>
           /\ c2s'[c] = cop[c].body
    /\ (spc = "recv_body" /\ cur = c /\ Len(c2s'[c]) < Len(c2s[c])) =>
           /\ cpc[c] = "recv_hdr"
           /\ SubSeq(c2s[c], 1, Len(c2s[c]) - Len(c2s'[c])) = cop[c].body

\* The steps of the exchange of a reply on connection c, the server sending
\* and the client receiving.
ReplyOrder(c) ==
    /\ (cpc[c] = "recv_hdr" /\ cpc'[c] = "recv_body") =>
           /\ SubSeq(s2c[c], 1, HeaderLen) = SizeHeader(srvSize)
           /\ c2s'[c] = c2s[c] \o SubSeq(s2c[c], 1, HeaderLen)
           /\ cop'[c].size = srvSize
    /\ (spc = "wait_echo" /\ cur = c /\ Len(s2c'[c]) > Len(s2c[c])) =>
           /\ EchoAt(c2s[c]) = srvSize
           /\ s2c[c] = <<>>
           /\ s2c'[c] = srvOut
           /\ cpc[c] = "recv_body"
    /\ (cpc[c] = "recv_body" /\ Len(s2c'[c]) < Len(s2c[c]) /\ ~ServerDead) =>
           /\ nReplied[c] = nServed[c]
           /\ Len(s2c[c]) - Len(s2c'[c]) = cop[c].size

\* C24: in every exchange the sender writes the whole size header, the
\* receiver reads it and writes the same bytes back, the sender writes the
\* body only after reading an echo that decodes to the size S it announced,
\* and the receiver reads the body after writing the echo, exactly S bytes.
C24_ExchangeOrder ==
    [][\A c \in Clients : RequestOrder(c) /\ ReplyOrder(c)]_vars

\* C24 witness: a request and its reply went through all their steps.
C24_Witness ==
    \E c \in Clients :
        /\ nDone[c] = 1
        /\ nReplied[c] = 1
        /\ lastCall[c].reply # NoMsg

\* C25 (as claimed): when the echo decodes to a size other than the one
\* announced, send_rpc_message writes no body byte and returns FAILED, the
\* process keeps running, and the find or call gets NULL from request.
C25_EchoMismatchAbandonsSend ==
    (Returned("send") /\ cx.in.n # cx.in.size) =>
        /\ cx.out.body = 0
        /\ ~cx.out.exit
        /\ cx.out.result = FAILED
        /\ cx.out.reply = NoMsg

InIo == cx # NoOp /\ cx.kind \in {"read_bytes", "write_bytes"}
           /\ cx.stage # "value"

\* C26: as long as every read or write transfers a positive number of
\* bytes, however the transfer is split, the pieces lie contiguously and in
\* order, the running total never exceeds size and grows with every
\* iteration (so the loop ends within size iterations), and the function
\* returns, with size, exactly when size bytes have been transferred.
C26_ExactTransfer ==
    (InIo /\ cx.out.clean) =>
        /\ cx.out.total <= cx.in.size
        /\ cx.out.iters <= cx.out.total
        /\ cx.stage \in {"loop", "returned"}
        /\ (cx.stage = "returned") <=> (cx.out.total = cx.in.size)
        /\ cx.stage = "returned" => cx.out.result = cx.in.size
        /\ cx.out.total > 0 =>
               SubSeq(cx.out.data, 1, cx.out.total)
                   = SubSeq(IoBytes, 1, cx.out.total)

\* C26 witness: a read of MaxIO bytes that came in more than one piece has
\* returned.
C26_Witness ==
    /\ InIo
    /\ cx.kind = "read_bytes"
    /\ cx.out.clean
    /\ cx.stage = "returned"
    /\ cx.in.size = MaxIO
    /\ cx.out.iters >= 2
    /\ cx.out.data = SubSeq(IoBytes, 1, MaxIO)

\* C27 (as claimed): when read or write returns -1, or read returns 0,
\* the loop stops, the socket is closed and FAILED is returned.
C27_ErrorClosesAndFails ==
    (InIo /\ cx.out.iters > 0 /\ cx.out.last <= 0) =>
        /\ cx.stage = "returned"
        /\ cx.out.result = FAILED
        /\ cx.out.sock = "closed"

\* C28 (as claimed): a message whose operation is REPLY, REPLY_FAILURE or
\* no operation of the protocol is a no-op for the server: it sends nothing
\* in response and goes on serving the connection.
C28_ReplyToServerIsNoOp ==
    (Returned("handle_request")
        /\ cx.in.msg.operation \notin {FIND, CALL}) =>
        /\ cx.out.new_msg = NoMsg
        /\ ~cx.out.fault

\* C29 (as claimed): once SIGINT has cleared keep_running, the loop of
\* handle_all_requests starts no further handle_request.
C29_WorkerObservesFlag ==
    [][(~keep_running /\ spc = "peek1") => spc' # "peek2"]_vars

\* C30: rpc_shutdown_server runs only once keep_running is cleared and no
\* connection is being served, and after it no request is dispatched, no
\* handler looked up and nothing sent: the server process stays returned.
C30_TeardownLast ==
    /\ [](spc = "returned" => (~keep_running /\ cur = NoConn /\ ~listening))
    /\ [][spc = "returned" =>
             (spc' = "returned" /\ UNCHANGED <<served, handlers, s2c>>)]_vars

\* C30 witness: the server has served a request, SIGINT came and
\* rpc_serve_all has torn the server down and returned.
C30_Witness ==
    /\ spc = "returned"
    /\ \E c \in Clients : nServed[c] >= 1 /\ nReplied[c] >= 1

\* C31: once read_bytes has closed the descriptor of the connection being
\* served (end of stream or failed transfer), the next thing the server does
\* is leave the worker loop for accept: it makes no further recv or read on
\* that descriptor.
C31_ClosedDescriptorEndsWorker ==
    [][(cur # NoConn /\ ssock[cur] = "closed" /\ spc' # spc)
          => (spc' = "accept" /\ cur' = NoConn)]_vars

\* The server has closed the descriptor after the client went away in the
\* middle of a request, and is back in the worker loop.
C31_Reached ==
    cur # NoConn /\ ssock[cur] = "closed" /\ spc = "peek1"

\* C32 (as claimed): deserialising a payload with data2_len = 0 leaves data2
\* absent; with data2_len > 0 data2 is data2_len bytes copied from the body;
\* and when the received body ends before data2_len bytes, the result is no
\* message instead of bytes from behind the body.
C32_Data2WithinBody ==
    /\ (Decoded("message") /\ WellFormed(cx.in.data)) =>
          LET d == cx.out.data
          IN  IF d.data2_len = 0
              THEN ~d.has2 /\ d.data2 = <<>>
              ELSE /\ d.has2
                   /\ d.data2 = SubSeq(cx.bytes, Len(cx.bytes) - d.data2_len + 1,
                                       Len(cx.bytes))
    /\ Decoded("short_body") => cx.out = NoMsg

\* C33 (as claimed): the bytes serialise_rpc_message appends are, in this
\* order, request_id (8 bytes), operation (8 bytes), the gamma code of
\* strlen + 1, the name with its NUL, data1 (8 bytes), the gamma code of
\* data2_len and then exactly data2_len bytes of data2, none if and only if
\* data2_len is 0.
C33_SerialisationOrder ==
    (cx # NoOp /\ cx.kind = "message" /\ cx.stage # "value") =>
        LET msg == cx.in
            d == msg.data
            head == serialise_int(msg.request_id)
                    \o serialise_int(msg.operation)
                    \o serialise_size_t(Len(msg.function_name) + 1)
                    \o msg.function_name \o <<0>>
                    \o serialise_int(d.data1)
                    \o serialise_size_t(d.data2_len)
        IN  /\ Len(cx.bytes) = Len(head) + d.data2_len
            /\ SubSeq(cx.bytes, 1, Len(head)) = head
            /\ d.data2_len > 0 =>
                  SubSeq(cx.bytes, Len(head) + 1, Len(cx.bytes)) = d.data2

\* C34 (as claimed): reserve_space(b, n) on a buffer new_buffer made, of any
\* capacity, ends: it does not stop the process and every turn of its loop
\* enlarges the buffer; after it b->next + n <= b->size, the size is the
\* capacity doubled some number of times and the bytes written are as they
\* were.
C34_ReserveTerminates ==
    (cx # NoOp /\ cx.kind = "reserve_space"
        /\ cx.stage \in {"reserving", "aborted", "returned"}) =>
        LET b == cx.out
        IN  /\ cx.stage # "aborted"
            /\ (cx.stage = "reserving" /\ b.next + cx.in.size > b.size)
                   => 2 * b.size > b.size
            /\ cx.stage = "returned" =>
                  /\ b.next + cx.in.size <= b.size
                  /\ \E k \in 0..4 : b.size = cx.in.capacity * Pow2(k)
                  /\ b.next = cx.in.next
                  /\ b.data = SubSeq(IoBytes, 1, cx.in.next)

\* C36: rpc_register(name, h) changes what a lookup of name gives and of no
\* other name: every other name, also one held in the bucket of name, is
\* looked up to the same handler, or to none, as before the call.
C36_RegisterFrame ==
    (Returned("register") /\ cx.in.name # NULL) =>
        \A other \in NameInputs \ {cx.in.name} :
            hashtable_lookup(cx.out.handlers, other)
                = hashtable_lookup(cx.in.table, other)

\* C36 witness: "dc" was registered anew in a registry that holds "dc" and,
\* behind it in the same bucket, "ab": "ab" still has its handler.
C36_Witness ==
    /\ Returned("register")
    /\ cx.in.name = N_dc
    /\ cx.in.handler = "add2_i8"
    /\ Index(N_ab) = Index(N_dc)
    /\ hashtable_lookup(cx.in.table, N_dc) = "tst_h"
    /\ Head(cx.in.table[Index(N_dc)]).key = N_dc
    /\ hashtable_lookup(cx.out.handlers, N_dc) = "add2_i8"
    /\ hashtable_lookup(cx.out.handlers, N_ab) = "sub2_i8"

\* C35 (as claimed): a lookup of a name that interleaves with the
\* re-registration of that name gives the old handler or the new one, never
\* none.
C35_ReplaceIsAtomic ==
    (cx # NoOp /\ cx.kind = "reregister"
        /\ cx.stage \in {"registering", "returned"}) =>
        cx.out.seen \in {"nothing",
                         hashtable_lookup(cx.in.table, cx.in.name),
                         cx.in.handler}

\* C37 (as claimed): whatever the 39 bytes of the size header received, the
\* decoder of the size reads bytes of the header buffer only: its cursor
\* ends at 39 at most.
C37_SizeDecodedWithinHeader ==
    Decoded("peer_header") => cx.next <= HeaderLen

\* C38 (as claimed): when rpc_call has returned, with a result or with
\* NULL, the payload record it was given and its data2 bytes are still the
\* caller's, neither freed nor changed.
C38_CallLeavesPayload ==
    Returned("rpc_call") => cx.out = Owned(cx.in.payload)

\* The call of client c that the request last dispatched on its connection
\* belongs to: the one in progress, or else the last one that returned.
CallServed(c) == IF cop[c] # NoOp THEN cop[c] ELSE lastCall[c]

\* C39 (as claimed): a CallRequest received for a registered name has the
\* registered handler invoked, once, with a payload equal to the one the
\* client passed, before the reply is written; a FindRequest has no handler
\* invoked.
C39_HandlerInvokedOncePerCall ==
    \A c \in Clients :
        (lastServed[c] # NoOp /\ nServed[c] = Started(c)) =>
        LET s == lastServed[c]
        IN  /\ nReplied[c] <= nServed[c]
            /\ s.req.operation = FIND =>
                  (s.handler = NULL /\ s.result = NoData)
            /\ (s.req.operation = CALL /\ Registered(s.req.function_name)) =>
                  /\ s.handler = lastReg[s.req.function_name]
                  /\ s.result = Apply(s.handler, s.req.data)
                  /\ s.req.data = CallServed(c).payload

\* The worker is in a recv or read for bytes of its connection that have
\* not been written; client c is in a read likewise.
ServerWaits ==
    \/ spc \in {"peek1", "peek2"} /\ c2s[cur] = <<>>
    \/ spc \in {"recv_hdr", "wait_echo"} /\ Len(c2s[cur]) < HeaderLen
    \/ spc = "recv_body" /\ Len(c2s[cur]) < srvSize

ClientWaits(c) ==
    \/ cpc[c] \in {"wait_echo", "recv_hdr"} /\ Len(s2c[c]) < HeaderLen
    \/ cpc[c] = "recv_body" /\ Len(s2c[c]) < cop[c].size

\* C40: while a client in request and the worker that serves its connection
\* are both connected, they are never both waiting in a read; and the client
\* in time gets the reply to its rpc_find, or to its rpc_call of a registered
\* handler, unless the server process is ended first.
C40_ExchangeNeverDeadlocks ==
    /\ [](\A c \in Conns :
            (cur = c /\ InFlight(c) /\ csock[c] = "open"
                /\ ssock[c] = "open" /\ ~ServerDead)
                => ~(ServerWaits /\ ClientWaits(c)))
    /\ \A c \in Conns :
          (cur = c /\ InFlight(c))
              ~> \/ /\ cpc[c] = "idle"
                    /\ lastCall[c] # NoOp
                    /\ lastCall[c].reply # NoMsg
                 \/ ServerDead

\* C40 witness: a client has its rpc_call of add2_i8 answered by the worker
\* that still serves its connection.
C40_Witness ==
    \E c \in Conns :
        /\ cur = c
        /\ cpc[c] = "idle"
        /\ ~ServerDead
        /\ lastCall[c] # NoOp
        /\ lastCall[c].kind = "call"
        /\ lastCall[c].ret = Data(101, 0, FALSE, <<>>)

=============================================================================
